---- MODULE Spec2Model ----
(***************************************************************************)
(* Trading Journal Pro (src/app.py): one Streamlit script run reads the    *)
(* ledger sheet, coerces its columns, resolves one live price per distinct *)
(* pair, values every row with calculate_pnl, handles the sidebar form and *)
(* renders the dashboard metrics.                                          *)
(*                                                                         *)
(* Python floats are modelled as integers with an explicit NaN, Python     *)
(* None as an explicit value, ratios as numerator/denominator pairs.       *)
(* Columns the script only displays (leverage, pnl_percent, emotions,      *)
(* notes, strategy, timeframe, tags) are left out of the rows.             *)
(***************************************************************************)
EXTENDS Integers, Sequences, FiniteSets

VARIABLES
    sheet,          \* the ledger store: the raw rows of the spreadsheet
    pc,             \* where the script run stands
    df,             \* the DataFrame of the run (<<>> when empty)
    loadError,      \* what the except clause of the load block caught
    pending,        \* unique_pairs still to be queried
    current_prices, \* the dict pair -> price or None
    queries,        \* the HTTP lookups of this run, in order
    metrics,        \* what the dashboard rendered
    form,           \* the widget values at the last submit
    new_trade,      \* the dict the submit handler built
    formResult      \* outcome of the last submit

vars == <<sheet, pc, df, loadError, pending, current_prices, queries,
          metrics, form, new_trade, formResult>>

(* ------------------------------ bounds -------------------------------- *)
MaxRows == 2
MaxTime == 2
MaxPrice == 2
MaxSize == 2
MaxPnl == 1

(* ------------------------- values and cells --------------------------- *)
\* a float: a number or NaN
Num(n) == [nan |-> FALSE, v |-> n]
NaN == [nan |-> TRUE, v |-> 0]
\* a parsed timestamp: a day number or NaT
NaT == [nan |-> TRUE, v |-> 0]
\* a price returned by the feed wrapper: a float or None
Price(p) == [none |-> FALSE, v |-> p]
None == [none |-> TRUE, v |-> 0]
\* a ratio of two floats
Ratio(n, d) == [num |-> n, den |-> d]
Zero == Ratio(0, 1)

\* a raw sheet cell as get_all_records returns it
NumCell(n) == [kind |-> "num", v |-> n]
DateCell(t) == [kind |-> "date", v |-> t]
EmptyCell == [kind |-> "empty", v |-> 0]
JunkCell == [kind |-> "junk", v |-> 0]

Symbols == {"BTCUSDT", "ETHUSDT"}
Directions == {"LONG", "SHORT"}
Qualities == {"A", "B"}

Abs(x) == IF x < 0 THEN -x ELSE x

RECURSIVE Ascending(_, _, _)
\* the members of S among k..n, in increasing order (a boolean mask's rows)
Ascending(S, k, n) ==
    IF k > n THEN <<>>
    ELSE IF k \in S THEN <<k>> \o Ascending(S, k + 1, n)
    ELSE Ascending(S, k + 1, n)

(* ----------------------------- coercion ------------------------------- *)
\* pd.to_numeric(col, errors='coerce')
to_numeric(cell) == IF cell.kind = "num" THEN Num(cell.v) ELSE NaN

\* pd.to_datetime raises on a string it cannot parse; '' becomes NaT
to_datetime_raises(cell) == cell.kind \notin {"date", "empty"}
to_datetime(cell) == IF cell.kind = "date" THEN Num(cell.v) ELSE NaT

isna(x) == x.nan

convert_row(r) ==
    [timestamp |-> to_datetime(r.timestamp),
     pair |-> r.pair,
     direction |-> r.direction,
     entry_price |-> to_numeric(r.entry_price),
     stop_loss |-> to_numeric(r.stop_loss),
     take_profit |-> to_numeric(r.take_profit),
     position_size |-> to_numeric(r.position_size),
     setup_quality |-> r.setup_quality,
     exit_price |-> to_numeric(r.exit_price),
     pnl |-> to_numeric(r.pnl)]

(* --------------------------- price resolver --------------------------- *)
\* what one HTTP lookup can produce
Responses ==
    [kind : {"ok"}, price : 0..MaxPrice]
    \cup [kind : {"exception", "malformed", "retcode"}, price : {0}]

get_current_price(resp) ==
    IF resp.kind = "ok" THEN Price(resp.price) ELSE None

\* a loop over the pair column itself, duplicates included
unique_keeping_duplicates(s) == s

RECURSIVE unique(_)
\* Series.unique(): distinct values in order of first appearance
unique(s) ==
    IF s = <<>> THEN <<>>
    ELSE LET u == unique(SubSeq(s, 1, Len(s) - 1))
             x == s[Len(s)]
         IN IF \E i \in 1..Len(u) : u[i] = x THEN u ELSE Append(u, x)

\* dict.get(key): None when the key is missing
DictGet(d, k) == IF k \in DOMAIN d THEN d[k] ELSE None
DictSet(d, k, x) == [j \in DOMAIN d \cup {k} |-> IF j = k THEN x ELSE d[j]]
EmptyDict == [j \in {} |-> None]

(* ----------------------------- valuation ------------------------------ *)
\* float arithmetic with NaN propagation
Sub(a, b) == IF a.nan \/ b.nan THEN NaN ELSE Num(a.v - b.v)
Mul(a, b) == IF a.nan \/ b.nan THEN NaN ELSE Num(a.v * b.v)

\* truth value of a price: None and 0.0 are both false
Truthy(p) == ~p.none /\ p.v /= 0

\* calculate_pnl without the exit_price test: closed rows marked to market
calculate_pnl_ignoring_exit(row, prices) ==
    LET current_price == DictGet(prices, row.pair)
    IN IF Truthy(current_price)
       THEN IF row.direction = "LONG"
            THEN Mul(Sub(Num(current_price.v), row.entry_price),
                     row.position_size)
            ELSE Mul(Sub(row.entry_price, Num(current_price.v)),
                     row.position_size)
       ELSE row.pnl

calculate_pnl(row, prices) ==
    IF isna(row.exit_price)
    THEN LET current_price == DictGet(prices, row.pair)
         IN IF Truthy(current_price)
            THEN IF row.direction = "LONG"
                 THEN Mul(Sub(Num(current_price.v), row.entry_price),
                          row.position_size)
                 ELSE Mul(Sub(row.entry_price, Num(current_price.v)),
                          row.position_size)
            ELSE row.pnl
    ELSE row.pnl

WithCurrentPnl(row, x) ==
    [f \in DOMAIN row \cup {"current_pnl"} |->
        IF f = "current_pnl" THEN x ELSE row[f]]

(* ------------------------------ metrics ------------------------------- *)
RECURSIVE sum_skipna(_)
\* Series.sum(): NaN entries are skipped, an empty sum is 0
sum_skipna(xs) ==
    IF xs = <<>> THEN 0
    ELSE (IF Head(xs).nan THEN 0 ELSE Head(xs).v) + sum_skipna(Tail(xs))

\* Series.cumsum(): a NaN entry stays NaN, the running sum skips it
cumsum(xs) ==
    [i \in 1..Len(xs) |->
        IF xs[i].nan THEN NaN ELSE Num(sum_skipna(SubSeq(xs, 1, i)))]

\* Series.mean(): sum and count of the non-NaN entries (count 0 is NaN)
mean_skipna(xs) ==
    [sum |-> sum_skipna(xs),
     n |-> Cardinality({i \in 1..Len(xs) : ~xs[i].nan})]

Column(frame, idx, col) == [i \in 1..Len(idx) |-> frame[idx[i]][col]]

closed_trades(frame) ==
    Ascending({i \in 1..Len(frame) : ~isna(frame[i].exit_price)}, 1, Len(frame))
open_trades(frame) ==
    Ascending({i \in 1..Len(frame) : isna(frame[i].exit_price)}, 1, Len(frame))

winning_trades(frame) ==
    Cardinality({i \in 1..Len(frame) : ~frame[i].pnl.nan /\ frame[i].pnl.v > 0})

win_rate(frame) ==
    IF Len(frame) > 0 THEN Ratio(winning_trades(frame) * 100, Len(frame))
    ELSE Zero

total_pnl(frame) == sum_skipna(Column(frame, closed_trades(frame), "pnl"))
open_pnl(frame) == sum_skipna(Column(frame, open_trades(frame), "current_pnl"))

\* sort_values('timestamp'): ascending, NaT last; the default sort kind is
\* not stable, so rows with equal timestamps may come out in either order
TimeLeq(a, b) == b.nan \/ (~a.nan /\ a.v <= b.v)
sort_values(frame, idx) ==
    {o \in [1..Len(idx) -> {idx[i] : i \in 1..Len(idx)}] :
        /\ \A i, j \in 1..Len(idx) : i /= j => o[i] /= o[j]
        /\ \A i \in 1..Len(idx) - 1 :
              TimeLeq(frame[o[i]].timestamp, frame[o[i + 1]].timestamp)}

equity_curve(frame, order) ==
    LET cum == cumsum(Column(frame, order, "pnl"))
    IN [i \in 1..Len(order) |->
           [row |-> order[i],
            timestamp |-> frame[order[i]].timestamp,
            cumulative_pnl |-> cum[i]]]

\* df.groupby('setup_quality')['pnl'].mean()
quality_pnl(frame) ==
    [q \in {frame[i].setup_quality : i \in 1..Len(frame)} |->
        mean_skipna(Column(frame,
            Ascending({i \in 1..Len(frame) : frame[i].setup_quality = q},
                      1, Len(frame)), "pnl"))]

\* nothing rendered: the "No trades recorded yet" branch
NoMetrics ==
    [rendered |-> FALSE, total_trades |-> 0, win_rate |-> Zero,
     total_pnl |-> 0, open_pnl |-> 0, open_trades |-> <<>>,
     closed_trades |-> <<>>, equity |-> <<>>,
     quality_pnl |-> [q \in {} |-> mean_skipna(<<>>)]]

(* ------------------------------- form --------------------------------- *)
\* abs(take_profit - entry_price) / abs(entry_price - stop_loss)
\*     if stop_loss else 0; float division by 0.0 raises ZeroDivisionError
risk_reward_ratio(entry_price, stop_loss, take_profit) ==
    IF stop_loss /= 0
    THEN IF Abs(entry_price - stop_loss) = 0
         THEN [raised |-> TRUE, value |-> Zero]
         ELSE [raised |-> FALSE,
               value |-> Ratio(Abs(take_profit - entry_price),
                               Abs(entry_price - stop_loss))]
    ELSE [raised |-> FALSE, value |-> Zero]

NewTrade(t, p, d, e, sl, tp, sz, q, rr) ==
    [timestamp |-> DateCell(t), pair |-> p, direction |-> d,
     entry_price |-> NumCell(e), stop_loss |-> NumCell(sl),
     take_profit |-> NumCell(tp), position_size |-> NumCell(sz),
     setup_quality |-> q, exit_price |-> EmptyCell, pnl |-> EmptyCell,
     risk_reward_ratio |-> rr]

NoForm ==
    [timestamp |-> 0, pair |-> "", direction |-> "", entry_price |-> 0,
     stop_loss |-> 0, take_profit |-> 0, position_size |-> 0,
     setup_quality |-> ""]

NoTrade == NewTrade(0, "", "", 0, 0, 0, 0, "", Zero)

\* the widget values tried: the date, pair, size and quality widgets stay at
\* their defaults; the direction and the three prices vary
FormDates == {MaxTime}
FormPairs == {"BTCUSDT"}
FormDirections == Directions
FormSizes == {0}
FormQualities == {"A"}

(* ------------------------------ actions ------------------------------- *)
\* the store cannot be read: setup_gsheet or get_all_records raises
LoadFail ==
    /\ pc = "load"
    /\ loadError' = "ledger"
    /\ df' = <<>>
    /\ pc' = "form"
    /\ UNCHANGED <<sheet, pending, current_prices, queries, metrics, form,
                   new_trade, formResult>>

\* the load block up to the price loop: read, coerce, parse timestamps
LoadData ==
    /\ pc = "load"
    /\ IF sheet = <<>>
       THEN /\ df' = <<>>
            /\ loadError' = "none"
            /\ pending' = <<>>
            /\ pc' = "form"
       ELSE IF \E i \in 1..Len(sheet) : to_datetime_raises(sheet[i].timestamp)
       THEN /\ df' = <<>>
            /\ loadError' = "timestamp"
            /\ pending' = <<>>
            /\ pc' = "form"
       ELSE /\ df' = [i \in 1..Len(sheet) |-> convert_row(sheet[i])]
            /\ loadError' = "none"
            /\ pending' = unique([i \in 1..Len(sheet) |-> sheet[i].pair])
            /\ pc' = "prices"
    /\ UNCHANGED <<sheet, current_prices, queries, metrics, form, new_trade,
                   formResult>>

\* one iteration of the price loop
QueryPrice ==
    /\ pc = "prices"
    /\ pending /= <<>>
    /\ \E resp \in Responses :
          /\ current_prices' =
                DictSet(current_prices, Head(pending), get_current_price(resp))
          /\ queries' = Append(queries, [symbol |-> Head(pending), resp |-> resp])
    /\ pending' = Tail(pending)
    /\ UNCHANGED <<sheet, pc, df, loadError, metrics, form, new_trade,
                   formResult>>

\* df['current_pnl'] = df.apply(calculate_pnl, axis=1, args=(current_prices,))
ApplyPnl ==
    /\ pc = "prices"
    /\ pending = <<>>
    /\ df' = [i \in 1..Len(df) |->
                WithCurrentPnl(df[i], calculate_pnl(df[i], current_prices))]
    /\ pc' = "form"
    /\ UNCHANGED <<sheet, loadError, pending, current_prices, queries, metrics,
                   form, new_trade, formResult>>

\* the Save Trade button: build new_trade, append it, rerun
SubmitForm ==
    /\ pc = "form"
    /\ Len(sheet) < MaxRows
    /\ \E t \in FormDates, p \in FormPairs, d \in FormDirections,
          e \in 0..MaxPrice, sl \in 0..MaxPrice, tp \in 0..MaxPrice,
          sz \in FormSizes, q \in FormQualities, appended \in BOOLEAN :
          LET rr == risk_reward_ratio(e, sl, tp)
              row == NewTrade(t, p, d, e, sl, tp, sz, q, rr.value)
          IN /\ form' = [timestamp |-> t, pair |-> p, direction |-> d,
                         entry_price |-> e, stop_loss |-> sl,
                         take_profit |-> tp, position_size |-> sz,
                         setup_quality |-> q]
             /\ IF rr.raised
                THEN \* ZeroDivisionError outside the try: the run stops
                     /\ appended
                     /\ new_trade' = NoTrade
                     /\ formResult' = "raised"
                     /\ pc' = "crashed"
                     /\ UNCHANGED sheet
                ELSE IF appended
                THEN /\ new_trade' = row
                     /\ formResult' = "saved"
                     /\ sheet' = Append(sheet, row)
                     /\ pc' = "load"
                ELSE /\ new_trade' = row
                     /\ formResult' = "append_failed"
                     /\ pc' = "dashboard"
                     /\ UNCHANGED sheet
    /\ IF pc' = "load"
       THEN /\ df' = <<>>
            /\ loadError' = "none"
            /\ current_prices' = EmptyDict
            /\ queries' = <<>>
       ELSE UNCHANGED <<df, loadError, current_prices, queries>>
    /\ UNCHANGED <<pending, metrics>>

\* the main dashboard block
Dashboard ==
    /\ pc \in {"form", "dashboard"}
    /\ IF df /= <<>>
       THEN \E order \in sort_values(df, closed_trades(df)) :
              metrics' =
                [rendered |-> TRUE,
                 total_trades |-> Len(df),
                 win_rate |-> win_rate(df),
                 total_pnl |-> total_pnl(df),
                 open_pnl |-> open_pnl(df),
                 open_trades |-> open_trades(df),
                 closed_trades |-> closed_trades(df),
                 equity |-> equity_curve(df, order),
                 quality_pnl |-> quality_pnl(df)]
       ELSE metrics' = NoMetrics
    /\ pc' = "done"
    /\ UNCHANGED <<sheet, df, loadError, pending, current_prices, queries,
                   form, new_trade, formResult>>

\* any later interaction runs the script again from the top
Rerun ==
    /\ pc \in {"done", "crashed"}
    /\ pc' = "load"
    /\ df' = <<>>
    /\ loadError' = "none"
    /\ pending' = <<>>
    /\ current_prices' = EmptyDict
    /\ queries' = <<>>
    /\ metrics' = NoMetrics
    /\ form' = NoForm
    /\ new_trade' = NoTrade
    /\ formResult' = "none"
    /\ UNCHANGED sheet

(* --------------------------- specifications --------------------------- *)
RowsOf(T, P, D, E, S, X, N, Q) ==
    [timestamp : T, pair : P, direction : D, entry_price : E,
     stop_loss : {NumCell(0)}, take_profit : {NumCell(0)},
     position_size : S, setup_quality : Q, exit_price : X, pnl : N,
     risk_reward_ratio : {Zero}]

Ledgers(R, n) == UNION {[1..k -> R] : k \in 0..n}

TimeCells == {DateCell(t) : t \in 1..MaxTime} \cup {EmptyCell, JunkCell}
PriceCells == {NumCell(p) : p \in 0..MaxPrice} \cup {EmptyCell, JunkCell}
SizeCells == {NumCell(z) : z \in 0..MaxSize}
PnlCells == {NumCell(x) : x \in (-MaxPnl)..MaxPnl} \cup {EmptyCell}

Start(ledgers) ==
    /\ sheet \in ledgers
    /\ pc = "load"
    /\ df = <<>>
    /\ loadError = "none"
    /\ pending = <<>>
    /\ current_prices = EmptyDict
    /\ queries = <<>>
    /\ metrics = NoMetrics
    /\ form = NoForm
    /\ new_trade = NoTrade
    /\ formResult = "none"

\* ledgers of up to MaxRows rows that vary in timestamp, exit, pnl, quality
Init ==
    Start(Ledgers(RowsOf(TimeCells, {"BTCUSDT"}, {"LONG"}, {NumCell(1)},
                         {NumCell(1)},
                         {EmptyCell, JunkCell, NumCell(MaxPrice)},
                         {EmptyCell, NumCell(-MaxPnl), NumCell(MaxPnl)},
                         Qualities),
                  MaxRows))

\* one-row ledgers that vary in everything calculate_pnl reads
InitOne ==
    Start(Ledgers(RowsOf({DateCell(1)}, Symbols, Directions,
                         PriceCells \ {JunkCell}, SizeCells, PriceCells,
                         PnlCells, {"A"}),
                  1))

\* ledgers of up to MaxRows + 1 rows that vary in the pair only
InitPairs ==
    Start(Ledgers(RowsOf({DateCell(1)}, Symbols, {"LONG"}, {NumCell(1)},
                         {NumCell(1)}, {EmptyCell}, {EmptyCell}, {"A"}),
                  MaxRows + 1))

\* a run without a form submit
NextPass == LoadFail \/ LoadData \/ QueryPrice \/ ApplyPnl \/ Dashboard \/ Rerun

Next == NextPass \/ SubmitForm

Spec == Init /\ [][Next]_vars
SpecOne == InitOne /\ [][NextPass]_vars
SpecPairs == InitPairs /\ [][NextPass]_vars

(* ------------------------------ properties ---------------------------- *)
Valued(i) == i \in 1..Len(df) /\ "current_pnl" \in DOMAIN df[i]
Rows == 1..Len(df)
PriceMaps ==
    UNION {[S -> {None} \cup {Price(p) : p \in 0..MaxPrice}] : S \in SUBSET Symbols}
\* the value a cell persists: its number, or absent
Persisted(cell) == IF cell.kind = "num" THEN Num(cell.v) ELSE NaN
SymbolsQueried == {queries[i].symbol : i \in 1..Len(queries)}

\* C1: for a Closed row (exit_price a number) calculate_pnl returns the
\* persisted pnl, for every price map and either direction, and so does the
\* current_pnl column of the run.
C1_ClosedPassThrough ==
    \A i \in Rows :
        sheet[i].exit_price.kind = "num" =>
            /\ \A pm \in PriceMaps :
                  calculate_pnl(df[i], pm) = Persisted(sheet[i].pnl)
            /\ Valued(i) => df[i].current_pnl = Persisted(sheet[i].pnl)

\* a valued Closed row with a live price that would have marked it differently
C1_Witness ==
    \E i \in Rows :
        /\ Valued(i)
        /\ sheet[i].exit_price.kind = "num"
        /\ sheet[i].pnl.kind = "num"
        /\ sheet[i].direction = "SHORT"
        /\ sheet[i].entry_price.kind = "num"
        /\ Truthy(DictGet(current_prices, df[i].pair))
        /\ (sheet[i].entry_price.v - current_prices[df[i].pair].v)
              * sheet[i].position_size.v /= sheet[i].pnl.v
        /\ df[i].current_pnl = Num(sheet[i].pnl.v)

\* C2: an Open row (exit_price empty) whose pair resolved to a price p is
\* valued (p - entry) * size when LONG and (entry - p) * size when SHORT, and
\* 0 when p equals the entry price.
C2_OpenMarkToMarket ==
    \A i \in Rows :
        (/\ Valued(i)
         /\ sheet[i].exit_price.kind = "empty"
         /\ ~DictGet(current_prices, df[i].pair).none) =>
            LET p == Num(current_prices[df[i].pair].v)
            IN /\ df[i].direction = "LONG" =>
                    df[i].current_pnl =
                        Mul(Sub(p, df[i].entry_price), df[i].position_size)
               /\ df[i].direction = "SHORT" =>
                    df[i].current_pnl =
                        Mul(Sub(df[i].entry_price, p), df[i].position_size)
               /\ (p = df[i].entry_price /\ ~df[i].position_size.nan) =>
                    df[i].current_pnl = Num(0)

\* C3: an Open row whose pair has no resolvable price has an absent
\* current_pnl, and open_pnl is what it would be without such rows.
Unresolvable(r) == isna(r.exit_price) /\ DictGet(current_prices, r.pair).none
C3_UnresolvableAbsent ==
    /\ \A i \in Rows :
          (Valued(i) /\ Unresolvable(df[i])) => df[i].current_pnl.nan
    /\ metrics.rendered =>
          metrics.open_pnl =
              open_pnl(SelectSeq(df, LAMBDA r : ~Unresolvable(r)))

\* C4: win_rate is 100 * (Closed rows with pnl > 0) / total_trades, where
\* total_trades counts every row, and it is 0 when nothing is counted.
ClosedWinners ==
    {i \in 1..Len(sheet) :
        /\ sheet[i].exit_price.kind = "num"
        /\ sheet[i].pnl.kind = "num"
        /\ sheet[i].pnl.v > 0}
C4_WinRate ==
    /\ metrics.rendered =>
          /\ metrics.total_trades = Len(sheet)
          /\ metrics.win_rate.num * metrics.total_trades
                = 100 * Cardinality(ClosedWinners) * metrics.win_rate.den
    /\ metrics.total_trades = 0 => metrics.win_rate = Zero

\* C5: with at least one Closed row the equity curve lists the Closed rows in
\* non-decreasing timestamp order, each point is the running sum of the
\* present pnl values up to it, and the last point equals closed_pnl.
C5_EquityCurve ==
    (metrics.rendered /\ metrics.closed_trades /= <<>>) =>
        LET eq == metrics.equity
            n == Len(eq)
        IN /\ {eq[k].row : k \in 1..n}
                = {i \in Rows : sheet[i].exit_price.kind = "num"}
           /\ n = Len(metrics.closed_trades)
           /\ \A k \in 1..n - 1 : TimeLeq(eq[k].timestamp, eq[k + 1].timestamp)
           /\ \A k \in 1..n :
                 eq[k].cumulative_pnl =
                     Num(sum_skipna([j \in 1..k |-> df[eq[j].row].pnl]))
           /\ eq[n].cumulative_pnl = Num(metrics.total_pnl)

\* C6: quality_performance maps each setup_quality to the mean of pnl over
\* the Closed rows of the bucket whose pnl is present; Open rows never enter.
ClosedWithPnl(q) ==
    {i \in Rows :
        /\ df[i].setup_quality = q
        /\ sheet[i].exit_price.kind = "num"
        /\ sheet[i].pnl.kind = "num"}
C6_QualityPerformance ==
    metrics.rendered =>
        \A q \in DOMAIN metrics.quality_pnl :
            LET m == metrics.quality_pnl[q]
                S == ClosedWithPnl(q)
                total == sum_skipna(Column(df, Ascending(S, 1, Len(df)), "pnl"))
            IN /\ (m.n = 0) <=> (S = {})
               /\ m.sum * Cardinality(S) = total * m.n

\* C7: computing risk_reward_ratio never raises; it is 0 when stop_loss is 0
\* and 0 when stop_loss equals entry_price, and the save then still reaches
\* the ledger append.
C7_RiskRewardGuarded ==
    /\ formResult /= "raised"
    /\ (formResult /= "none" /\ form.stop_loss \in {0, form.entry_price}) =>
          /\ formResult \in {"saved", "append_failed"}
          /\ new_trade.risk_reward_ratio = Zero

\* C8: a row with an unparseable timestamp does not abort the load: every row
\* is still counted in total_trades, the bad row is left out of the equity
\* curve only, and the other rows are aggregated.
C8_BadTimestampTolerated ==
    (pc = "done" /\ loadError /= "ledger" /\ sheet /= <<>>) =>
        /\ metrics.rendered
        /\ metrics.total_trades = Len(sheet)
        /\ \A k \in 1..Len(metrics.equity) :
              sheet[metrics.equity[k].row].timestamp.kind /= "junk"
        /\ metrics.total_pnl =
              sum_skipna([i \in 1..Len(sheet) |->
                  IF sheet[i].exit_price.kind = "num"
                  THEN Persisted(sheet[i].pnl) ELSE NaN])

\* C9: in one pass each distinct pair is queried exactly once; a failed lookup
\* gives None for that pair only, the price of every pair is decided by its
\* own response alone, and the pass goes on to value every row.
C9_ResolvePerSymbol ==
    /\ \A i, j \in 1..Len(queries) :
          i /= j => queries[i].symbol /= queries[j].symbol
    /\ DOMAIN current_prices = SymbolsQueried
    /\ \A i \in 1..Len(queries) :
          current_prices[queries[i].symbol] =
              IF queries[i].resp.kind = "ok"
              THEN Price(queries[i].resp.price) ELSE None
    /\ (pc \in {"form", "dashboard", "done"} /\ loadError = "none") =>
          /\ SymbolsQueried = {sheet[i].pair : i \in 1..Len(sheet)}
          /\ Len(df) = Len(sheet)
          /\ \A i \in Rows : Valued(i)

\* a finished pass over three rows on two pairs, the first lookup failed
C9_Witness ==
    /\ pc = "done"
    /\ metrics.rendered
    /\ Len(sheet) = 3
    /\ sheet[1].pair = sheet[3].pair
    /\ Len(queries) = 2
    /\ queries[1].resp.kind = "exception"
    /\ queries[2].resp.kind = "ok"
    /\ current_prices[queries[1].symbol] = None
    /\ current_prices[queries[2].symbol] = Price(MaxPrice)

\* C10: a row whose exit_price cell is present but not a number is not
\* treated as Open: not listed among the open trades, not marked to market,
\* and not part of open_pnl.
AttemptedExit(i) == sheet[i].exit_price.kind = "junk"
C10_UnparseableExitNotOpen ==
    /\ \A i \in Rows : (Valued(i) /\ AttemptedExit(i)) =>
          df[i].current_pnl = df[i].pnl
    /\ metrics.rendered =>
          /\ \A k \in 1..Len(metrics.open_trades) :
                ~AttemptedExit(metrics.open_trades[k])
          /\ metrics.open_pnl =
                sum_skipna([i \in Rows |->
                    IF sheet[i].exit_price.kind = "empty"
                    THEN df[i].current_pnl ELSE NaN])

====
